---------------------------- MODULE Spec2Model ----------------------------
(***************************************************************************)
(* Model of generate_video_with_music (src/dogs_git.py): the rotation      *)
(* cursor kept in last_video_index.txt, the selection of the background    *)
(* video and the music, the composition of the clips, the render and the   *)
(* cleanup block.  One invocation of the script is one run; runs follow    *)
(* one another (the script is started once per scheduled job).             *)
(***************************************************************************)
EXTENDS Integers, Sequences, FiniteSets, TLC

(***************************************************************************)
(* Bounds of the model.                                                    *)
(***************************************************************************)
MaxVideos == 3          \* background videos that may lie in dogs_temp
MaxRuns == 2            \* selection steps followed in one behaviour
MaxRotationRuns == 5    \* the same, when the rotation is followed
MaxOutroDuration == 2   \* the outro file lasts 1..MaxOutroDuration units
MaxMusicSpread == 1     \* music lasts MAIN_VIDEO_DURATION - this .. TOTAL_DURATION + this

(***************************************************************************)
(* Program constants.                                                      *)
(***************************************************************************)
MAIN_VIDEO_DURATION == 12

OUTRO_FILENAME == "like_subscribe.mp4"

STATE_FILENAME == "last_video_index.txt"

(***************************************************************************)
(* File names.  TLA+ strings are atoms, so the two things the code does    *)
(* with a name are tabulated: str.endswith on the extension, and the       *)
(* lexicographic order sorted() uses (code point order: upper case first). *)
(***************************************************************************)
NameOrder ==
  << "UP.MP4", "a.mp4", "b.mov", "cover.jpg", "last_video_index.txt",
     "like_subscribe.mp4", "m.mp4", "notes.txt", "z.mov", "zz.mp4" >>

Suffix(f) ==
  CASE f \in {"a.mp4", "like_subscribe.mp4", "m.mp4", "zz.mp4"} -> ".mp4"
    [] f \in {"b.mov", "z.mov"} -> ".mov"
    [] f = "UP.MP4" -> ".MP4"
    [] f = "cover.jpg" -> ".jpg"
    [] f \in {"calm.mp3", "happy.mp3"} -> ".mp3"
    [] OTHER -> ".txt"

Rank(f) == CHOOSE i \in 1..Len(NameOrder) : NameOrder[i] = f

\* The background videos the folder may hold, and what else lies in it.
VideoPool == << "a.mp4", "m.mp4", "z.mov", "b.mov", "zz.mp4" >>

VideoNames == { VideoPool[i] : i \in 1..MaxVideos }

OtherFiles == { "UP.MP4", "notes.txt" }

MusicNames == { "calm.mp3" }

(***************************************************************************)
(* sorted(): ascending by Rank.                                            *)
(***************************************************************************)
RECURSIVE Sorted(_)
Sorted(S) ==
  IF S = {} THEN << >>
  ELSE LET m == CHOOSE x \in S : \A y \in S : Rank(x) <= Rank(y)
       IN  << m >> \o Sorted(S \ {m})

(***************************************************************************)
(* The text of the state file: a sequence of characters.  str(n) and       *)
(* int(text) are computed digit by digit.                                  *)
(***************************************************************************)
Digits == << "0", "1", "2", "3", "4", "5", "6", "7", "8", "9" >>

IsDigit(c) == \E i \in 1..10 : Digits[i] = c

DigitVal(c) == (CHOOSE i \in 1..10 : Digits[i] = c) - 1

IsSpace(c) == c \in { " ", "\n" }

RECURSIVE StrNat(_)
StrNat(n) == IF n < 10 THEN << Digits[n + 1] >>
             ELSE StrNat(n \div 10) \o << Digits[(n % 10) + 1] >>

\* Variant: the 1-based number that line 213 prints is what gets written.
Str_OneBased(n) == StrNat(n + 1)

\* str(n)
Str(n) == IF n < 0 THEN << "-" >> \o StrNat(0 - n) ELSE StrNat(n)

RECURSIVE LStrip(_)
LStrip(s) == IF s # << >> /\ IsSpace(Head(s)) THEN LStrip(Tail(s)) ELSE s

RECURSIVE RStrip(_)
RStrip(s) == IF s # << >> /\ IsSpace(s[Len(s)])
             THEN RStrip(SubSeq(s, 1, Len(s) - 1)) ELSE s

RECURSIVE DigitsVal(_)
DigitsVal(s) == IF s = << >> THEN 0
                ELSE 10 * DigitsVal(SubSeq(s, 1, Len(s) - 1)) + DigitVal(s[Len(s)])

AllDigits(s) == s # << >> /\ \A i \in 1..Len(s) : IsDigit(s[i])

\* int(text): surrounding white space is dropped, one sign is allowed, the
\* rest must be decimal digits; anything else is a ValueError (ok = FALSE).
ParseInt(s) ==
  LET t == RStrip(LStrip(s))
      signed == t # << >> /\ Head(t) \in { "-", "+" }
      body == IF signed THEN Tail(t) ELSE t
  IN  IF AllDigits(body)
      THEN [ok |-> TRUE,
            val |-> IF signed /\ Head(t) = "-" THEN 0 - DigitsVal(body)
                    ELSE DigitsVal(body)]
      ELSE [ok |-> FALSE, val |-> 0]

NoFile == [exists |-> FALSE, text |-> << >>]

FileOf(s) == [exists |-> TRUE, text |-> s]

\* What last_video_index.txt may hold when the first run starts.
InitTexts ==
  { << >>, << "x" >>, << "1", ".", "5" >>, << " " >>,
    << "0" >>, << "1" >>, << "2", "\n" >>,
    << "-", "1" >>, << "-", "2" >>, << "-", "3" >>,
    << "3" >>, << "4" >>, << "1", "2" >> }


(***************************************************************************)
(* State.  The folders and the state file are on disk and outlive a run;   *)
(* the rest are the locals of one call of generate_video_with_music.       *)
(***************************************************************************)
VARIABLES
  bgFolder,           \* names in dogs_temp, the state file aside
  musicFolder,        \* names in pets_music
  outroLength,        \* duration of the outro file on disk
  outroReadable,      \* VideoFileClip can open the outro file
  stateFile,          \* dogs_temp/last_video_index.txt
  output,             \* what lies at output_filename: none, partial, complete
  pc,                 \* position in the call
  OUTRO_DURATION, TOTAL_DURATION,
  chosen_music_path, available_videos, last_index, next_index,
  chosen_video_path,
  music_clip, background_clip, main_background, main_video, outro_clip,
  final_video,
  opened,             \* media handles opened in this run
  closes,             \* close() calls completed, per object
  rendered,           \* write_videofile: no (not attempted), ok, failed
  error,              \* an exception is propagating out of the try block
  selections,         \* history: selection steps completed so far
  writes,             \* history: writes of the state file in this run
  fileAtStart,        \* history: the state file when this run started
  exception,          \* the step whose exception left the try block, or none
  propagated,         \* the exception the caller of the function receives
  cleanup_error,      \* history: a close call raised in the finally block
  choice,             \* get_user_choice()
  sheet,              \* the rows of the Google Sheet below its header
  used_facts, attempt,\* locals of create_quote_content
  content,            \* part1 of what create_quote_content returned
  video_id, upload_status,
  logged,             \* log_to_sheet: no (not called), appended, failed
  sheetAtStart,       \* history: the sheet when this run started
  peer                \* a second invocation of the script: its selection step

disk == << bgFolder, musicFolder, outroLength, outroReadable, stateFile,
          output >>

locals == << OUTRO_DURATION, TOTAL_DURATION, chosen_music_path,
             available_videos, last_index, next_index, chosen_video_path,
             music_clip, background_clip, main_background, main_video,
             outro_clip, final_video >>

handles == << opened, closes >>

history == << selections, writes, fileAtStart >>

surfaced == << exception, propagated, cleanup_error >>

mainflow == << choice, sheet, used_facts, attempt, content, video_id,
              upload_status, logged, sheetAtStart >>

vars == << disk, pc, locals, handles, rendered, error, history, surfaced,
          mainflow, peer >>

\* The second invocation before it starts.  readAt and writeAt are history:
\* where the first invocation stood when the second read and wrote the cursor.
PeerIdle ==
  [pc |-> "idle", available_videos |-> << >>, last_index |-> -1,
   next_index |-> -1, chosen_video_path |-> "", readAt |-> "", writeAt |-> ""]

NoClip == [kind |-> "None"]

Objects == { "outro_clip_for_duration", "music_clip", "background_clip",
             "main_background", "outro_clip", "outro_width_probe",
             "final_video" }

Finished == { "exited", "raised", "returned" }

(***************************************************************************)
(* Helpers of the selection step.                                          *)
(***************************************************************************)
\* os.listdir(BACKGROUND_FOLDER)
ListBackgroundFolder ==
  bgFolder \cup (IF stateFile.exists THEN { STATE_FILENAME } ELSE {})

\* lines 194-195
AvailableVideos(listing) ==
  Sorted({ f \in listing : Suffix(f) \in { ".mp4", ".mov" } /\ f # OUTRO_FILENAME })

\* line 190
AvailableMusic(listing) == { f \in listing : Suffix(f) = ".mp3" }

\* Variant: an unreadable cursor restarts at 0 instead of -1.
ReadCursorValue_ZeroDefault(file) ==
  IF ~file.exists THEN -1
  ELSE IF file.text = << >> THEN 0
  ELSE IF ParseInt(file.text).ok THEN ParseInt(file.text).val
  ELSE 0

\* lines 201-207: int(f.read() or -1), -1 on ValueError, -1 without a file
ReadCursorValue(file) ==
  IF ~file.exists THEN -1
  ELSE IF file.text = << >> THEN -1
  ELSE IF ParseInt(file.text).ok THEN ParseInt(file.text).val
  ELSE -1

\* line 210: list[i]; a negative i counts from the end of the list
ListItem(list, i) == IF i >= 0 THEN list[i + 1] ELSE list[Len(list) + i + 1]

\* Variant: a remainder that takes the sign of the dividend (C, Java).
NextIndex_Truncating(last, count) ==
  IF last + 1 >= 0 THEN (last + 1) % count ELSE 0 - ((0 - (last + 1)) % count)

\* Variant: a cursor outside 0..count-1 is taken for -1.
NextIndex_ResetOutOfRange(last, count) ==
  IF last < 0 \/ last >= count THEN 0 ELSE (last + 1) % count

\* line 209: Python's % takes the sign of the divisor
NextIndex(last, count) == (last + 1) % count

(***************************************************************************)
(* Init: any folder content, any state file, no run started.               *)
(***************************************************************************)
InitLocals ==
  /\ OUTRO_DURATION = 0 /\ TOTAL_DURATION = 0
  /\ chosen_music_path = "" /\ available_videos = << >>
  /\ last_index = -1 /\ next_index = -1 /\ chosen_video_path = ""
  /\ music_clip = NoClip /\ background_clip = NoClip
  /\ main_background = NoClip /\ main_video = NoClip
  /\ outro_clip = NoClip /\ final_video = NoClip
  /\ opened = {} /\ closes = [o \in Objects |-> 0]
  /\ rendered = "no" /\ error = FALSE
  /\ exception = "none" /\ propagated = "none" /\ cleanup_error = FALSE
  /\ output = "none"
  /\ pc = "idle"
  /\ selections = 0 /\ writes = 0
  /\ peer = PeerIdle
  /\ choice = "" /\ used_facts = {} /\ attempt = 0 /\ content = ""
  /\ video_id = "" /\ upload_status = "" /\ logged = "no"

Init ==
  /\ \E vids \in SUBSET VideoNames, outro \in SUBSET { OUTRO_FILENAME } :
       bgFolder = OtherFiles \cup vids \cup outro
  /\ \E songs \in SUBSET MusicNames : musicFolder = { "cover.jpg" } \cup songs
  /\ outroLength \in 1..MaxOutroDuration
  /\ outroReadable \in BOOLEAN
  /\ stateFile \in { NoFile } \cup { FileOf(t) : t \in InitTexts }
  /\ fileAtStart = stateFile
  /\ sheet = << >> /\ sheetAtStart = sheet
  /\ InitLocals

(***************************************************************************)
(* A run starts: the script is invoked and calls generate_video_with_music *)
(* with a fresh output_filename (quote_<time>.mp4).                        *)
(***************************************************************************)
InvokeUpTo(runs) ==
  /\ pc = "idle"
  /\ selections < runs
  /\ pc' = "outro"
  /\ fileAtStart' = stateFile
  /\ UNCHANGED << disk, locals, handles, rendered, error, selections, writes >>
  /\ UNCHANGED peer
  /\ UNCHANGED surfaced
  /\ UNCHANGED mainflow

Invoke == InvokeUpTo(MaxRuns)

\* The process of a run ends; its locals and its output path are gone.
EndRun ==
  /\ pc \in Finished
  /\ pc' = "idle"
  /\ OUTRO_DURATION' = 0 /\ TOTAL_DURATION' = 0
  /\ chosen_music_path' = "" /\ available_videos' = << >>
  /\ last_index' = -1 /\ next_index' = -1 /\ chosen_video_path' = ""
  /\ music_clip' = NoClip /\ background_clip' = NoClip
  /\ main_background' = NoClip /\ main_video' = NoClip
  /\ outro_clip' = NoClip /\ final_video' = NoClip
  /\ opened' = {} /\ closes' = [o \in Objects |-> 0]
  /\ rendered' = "no" /\ error' = FALSE
  /\ exception' = "none" /\ propagated' = "none" /\ cleanup_error' = FALSE
  /\ output' = "none"
  /\ writes' = 0 /\ fileAtStart' = stateFile
  /\ UNCHANGED << bgFolder, musicFolder, outroLength, outroReadable, stateFile, selections >>
  /\ UNCHANGED peer
  /\ UNCHANGED mainflow

\* Between runs a background video is removed from the folder.
RemoveVideo ==
  /\ pc = "idle"
  /\ \E f \in bgFolder \cap VideoNames : bgFolder' = bgFolder \ {f}
  /\ UNCHANGED << musicFolder, outroLength, outroReadable, stateFile, output, pc, locals,
                  handles, rendered, error, history >>
  /\ UNCHANGED peer
  /\ UNCHANGED surfaced
  /\ UNCHANGED mainflow

\* Variant: without a usable outro file the run goes on with no outro.
GetOutroDuration_Fallback ==
  /\ pc = "outro"
  /\ IF OUTRO_FILENAME \in bgFolder /\ outroReadable
     THEN /\ OUTRO_DURATION' = outroLength
          /\ opened' = opened \cup { "outro_clip_for_duration" }
          /\ closes' = [closes EXCEPT !["outro_clip_for_duration"] = @ + 1]
     ELSE /\ OUTRO_DURATION' = 0
          /\ UNCHANGED << opened, closes >>
  /\ TOTAL_DURATION' = MAIN_VIDEO_DURATION + OUTRO_DURATION'
  /\ pc' = "music"
  /\ UNCHANGED << disk, chosen_music_path, available_videos, last_index,
                  next_index, chosen_video_path, music_clip, background_clip,
                  main_background, main_video, outro_clip, final_video,
                  rendered, error, history >>
  /\ UNCHANGED peer
  /\ UNCHANGED surfaced
  /\ UNCHANGED mainflow

\* Variant: the total leaves the outro out.
TotalDuration_MainOnly(outro) == MAIN_VIDEO_DURATION

\* line 186
TotalDuration(outro) == MAIN_VIDEO_DURATION + outro

(***************************************************************************)
(* lines 176-186: the outro file is opened for its duration and closed;    *)
(* a missing or unreadable file ends the run (sys.exit).                   *)
(***************************************************************************)
GetOutroDuration ==
  /\ pc = "outro"
  /\ IF OUTRO_FILENAME \in bgFolder /\ outroReadable
     THEN /\ OUTRO_DURATION' = outroLength
          /\ TOTAL_DURATION' = TotalDuration(outroLength)
          /\ opened' = opened \cup { "outro_clip_for_duration" }
          /\ closes' = [closes EXCEPT !["outro_clip_for_duration"] = @ + 1]
          /\ pc' = "music"
     ELSE /\ pc' = "exited"
          /\ UNCHANGED << OUTRO_DURATION, TOTAL_DURATION, opened, closes >>
  /\ UNCHANGED << disk, chosen_music_path, available_videos, last_index,
                  next_index, chosen_video_path, music_clip, background_clip,
                  main_background, main_video, outro_clip, final_video,
                  rendered, error, history >>
  /\ UNCHANGED peer
  /\ UNCHANGED surfaced
  /\ UNCHANGED mainflow

(***************************************************************************)
(* lines 190-192: random.choice over the .mp3 files; an empty list raises  *)
(* IndexError, which line 215 turns into sys.exit.                         *)
(***************************************************************************)
SelectMusic ==
  /\ pc = "music"
  /\ IF AvailableMusic(musicFolder) = {}
     THEN pc' = "exited" /\ UNCHANGED chosen_music_path
     ELSE /\ chosen_music_path' \in AvailableMusic(musicFolder)
          /\ pc' = "videos"
  /\ UNCHANGED << disk, OUTRO_DURATION, TOTAL_DURATION, available_videos,
                  last_index, next_index, chosen_video_path, music_clip,
                  background_clip, main_background, main_video, outro_clip, final_video,
                  handles, rendered, error, history >>
  /\ UNCHANGED peer
  /\ UNCHANGED surfaced
  /\ UNCHANGED mainflow

(***************************************************************************)
(* lines 194-197: the sorted list of background videos; empty: sys.exit.   *)
(***************************************************************************)
ListVideos ==
  /\ pc = "videos"
  /\ available_videos' = AvailableVideos(ListBackgroundFolder)
  /\ pc' = IF available_videos' = << >> THEN "exited" ELSE "read"
  /\ UNCHANGED << disk, OUTRO_DURATION, TOTAL_DURATION, chosen_music_path,
                  last_index, next_index, chosen_video_path, music_clip,
                  background_clip, main_background, main_video, outro_clip, final_video,
                  handles, rendered, error, history >>
  /\ UNCHANGED peer
  /\ UNCHANGED surfaced
  /\ UNCHANGED mainflow

(***************************************************************************)
(* lines 200-207: the cursor is read.                                      *)
(***************************************************************************)
ReadCursor ==
  /\ pc = "read"
  /\ last_index' = ReadCursorValue(stateFile)
  /\ pc' = "write"
  /\ UNCHANGED << disk, OUTRO_DURATION, TOTAL_DURATION, chosen_music_path,
                  available_videos, next_index, chosen_video_path, music_clip,
                  background_clip, main_background, main_video, outro_clip, final_video,
                  handles, rendered, error, history >>
  /\ UNCHANGED peer
  /\ UNCHANGED surfaced
  /\ UNCHANGED mainflow

\* Variant: the index is chosen but the state file is not written here.
WriteCursor_NotPersisted ==
  /\ pc = "write"
  /\ next_index' = NextIndex(last_index, Len(available_videos))
  /\ chosen_video_path' = ListItem(available_videos, next_index')
  /\ selections' = selections + 1
  /\ pc' = "load"
  /\ UNCHANGED << disk, OUTRO_DURATION, TOTAL_DURATION, chosen_music_path,
                  available_videos, last_index, music_clip, background_clip,
                  main_background, main_video, outro_clip, final_video,
                  handles, rendered, error, writes, fileAtStart >>
  /\ UNCHANGED peer
  /\ UNCHANGED surfaced
  /\ UNCHANGED mainflow

(***************************************************************************)
(* lines 209-213: the next index is computed, the video is chosen and the  *)
(* state file is overwritten with str(next_index).                         *)
(***************************************************************************)
WriteCursor ==
  /\ pc = "write"
  /\ next_index' = NextIndex(last_index, Len(available_videos))
  /\ chosen_video_path' = ListItem(available_videos, next_index')
  /\ stateFile' = FileOf(Str(next_index'))
  /\ writes' = writes + 1
  /\ selections' = selections + 1
  /\ pc' = "load"
  /\ UNCHANGED << bgFolder, musicFolder, outroLength, outroReadable, output,
                  OUTRO_DURATION,
                  TOTAL_DURATION, chosen_music_path, available_videos,
                  last_index, music_clip, background_clip, main_background,
                  main_video, outro_clip, final_video, handles, rendered, error,
                  fileAtStart >>
  /\ UNCHANGED peer
  /\ UNCHANGED surfaced
  /\ UNCHANGED mainflow

(***************************************************************************)
(* Clips.  An audio clip plays its source from the start; set_duration     *)
(* only sets the length of the clip, so past the end of the source there   *)
(* is no source audio to play.                                             *)
(***************************************************************************)
\* AudioFileClip(path) of a file lasting d
AudioFileClip(d) == [kind |-> "audio", src |-> d, duration |-> d]

\* clip.set_duration(t)
SetDuration(clip, t) == [clip EXCEPT !.duration = t]

\* line 227
PrepareTrack(d, total) == SetDuration(AudioFileClip(d), total)

\* The position of the source heard at time t of the clip, -1 for none.
AudioAt(clip, t) == IF t < clip.src THEN t ELSE -1

\* The durations a music file may have, around the length total.
MusicDurations(total) ==
  (MAIN_VIDEO_DURATION - MaxMusicSpread)..(total + MaxMusicSpread)

\* line 267: the clips follow one another
ConcatDuration(clips) == clips[1].duration + clips[2].duration

\* lines 276-278: the exception of a step of the try block is re-raised
Raise == error' = TRUE /\ exception' = pc /\ pc' = "finally"

(***************************************************************************)
(* lines 227-233: the music and the background video are opened and the    *)
(* background is cut to the main duration.  Each call may raise.           *)
(***************************************************************************)
LoadClips ==
  /\ pc = "load"
  /\ \E outcome \in { "ok", "music_fails", "video_fails", "prepare_fails" },
        d \in MusicDurations(TOTAL_DURATION) :
       /\ music_clip' = IF outcome = "music_fails" THEN NoClip
                        ELSE PrepareTrack(d, TOTAL_DURATION)
       /\ background_clip' =
            IF outcome \in { "music_fails", "video_fails" } THEN NoClip
            ELSE [kind |-> "video", file |-> chosen_video_path]
       /\ main_background' =
            IF outcome = "ok"
            THEN [kind |-> "video", file |-> chosen_video_path,
                  duration |-> MAIN_VIDEO_DURATION]
            ELSE NoClip
       /\ opened' = opened
            \cup (IF outcome = "music_fails" THEN {} ELSE { "music_clip" })
            \cup (IF outcome \in { "music_fails", "video_fails" } THEN {}
                  ELSE { "background_clip" })
       /\ IF outcome = "ok" THEN pc' = "layers" /\ UNCHANGED << error, exception >> ELSE Raise
  /\ UNCHANGED << disk, OUTRO_DURATION, TOTAL_DURATION, chosen_music_path,
                  available_videos, last_index, next_index, chosen_video_path,
                  main_video, outro_clip, final_video, closes, rendered,
                  history >>
  /\ UNCHANGED peer
  /\ UNCHANGED << propagated, cleanup_error >>
  /\ UNCHANGED mainflow

(***************************************************************************)
(* lines 235-259: the heading and the two captions are laid over the       *)
(* background; the composite lasts MAIN_VIDEO_DURATION.                     *)
(***************************************************************************)
CompositeMainVideo ==
  /\ pc = "layers"
  /\ \E ok \in BOOLEAN :
       IF ok
       THEN /\ main_video' = [kind |-> "video", duration |-> MAIN_VIDEO_DURATION]
            /\ pc' = "outro_clip" /\ UNCHANGED << error, exception >>
       ELSE UNCHANGED main_video /\ Raise
  /\ UNCHANGED << disk, OUTRO_DURATION, TOTAL_DURATION, chosen_music_path,
                  available_videos, last_index, next_index, chosen_video_path,
                  music_clip, background_clip, main_background, outro_clip,
                  final_video, handles, rendered, history >>
  /\ UNCHANGED peer
  /\ UNCHANGED << propagated, cleanup_error >>
  /\ UNCHANGED mainflow

(***************************************************************************)
(* lines 263-264: the outro file is opened and resized, opened a second    *)
(* time for its width, and cropped.  Only the cropped clip is bound.       *)
(***************************************************************************)
LoadOutroClip ==
  /\ pc = "outro_clip"
  /\ \E outcome \in { "ok", "open_fails", "resize_fails", "crop_fails" } :
       /\ outro_clip' =
            IF outcome = "ok"
            THEN [kind |-> "video", file |-> OUTRO_FILENAME,
                  duration |-> outroLength]
            ELSE NoClip
       /\ opened' = opened
            \cup (IF outcome = "open_fails" THEN {} ELSE { "outro_clip" })
            \cup (IF outcome \in { "ok", "crop_fails" }
                  THEN { "outro_width_probe" } ELSE {})
       /\ IF outcome = "ok" THEN pc' = "concat" /\ UNCHANGED << error, exception >> ELSE Raise
  /\ UNCHANGED << disk, OUTRO_DURATION, TOTAL_DURATION, chosen_music_path,
                  available_videos, last_index, next_index, chosen_video_path,
                  music_clip, background_clip, main_background, main_video,
                  final_video, closes, rendered, history >>
  /\ UNCHANGED peer
  /\ UNCHANGED << propagated, cleanup_error >>
  /\ UNCHANGED mainflow

(***************************************************************************)
(* lines 267-268: main video and outro are concatenated and the music is   *)
(* set as the audio of the result.                                         *)
(***************************************************************************)
Concatenate ==
  /\ pc = "concat"
  /\ \E outcome \in { "ok", "concat_fails", "set_audio_fails" } :
       /\ final_video' =
            IF outcome = "concat_fails" THEN NoClip
            ELSE [kind |-> "video",
                  duration |-> ConcatDuration(<< main_video, outro_clip >>),
                  audio |-> IF outcome = "ok" THEN music_clip ELSE NoClip]
       /\ opened' = opened
            \cup (IF outcome = "concat_fails" THEN {} ELSE { "final_video" })
       /\ IF outcome = "ok" THEN pc' = "render" /\ UNCHANGED << error, exception >> ELSE Raise
  /\ UNCHANGED << disk, OUTRO_DURATION, TOTAL_DURATION, chosen_music_path,
                  available_videos, last_index, next_index, chosen_video_path,
                  music_clip, background_clip, main_background, main_video,
                  outro_clip, closes, rendered, history >>
  /\ UNCHANGED peer
  /\ UNCHANGED << propagated, cleanup_error >>
  /\ UNCHANGED mainflow

(***************************************************************************)
(* lines 272-278: write_videofile.  It completes, or raises before it      *)
(* wrote anything, or raises with part of the file written; the except     *)
(* block prints and re-raises.                                             *)
(***************************************************************************)
WriteFinalFile ==
  /\ pc = "render"
  /\ \E outcome \in { "ok", "fails_before_writing", "fails_while_writing" } :
       /\ output' = CASE outcome = "ok" -> "complete"
                      [] outcome = "fails_while_writing" -> "partial"
                      [] OTHER -> output
       /\ rendered' = IF outcome = "ok" THEN "ok" ELSE "failed"
       /\ error' = (outcome # "ok")
       /\ exception' = IF outcome = "ok" THEN exception ELSE pc
  /\ pc' = "finally"
  /\ UNCHANGED << bgFolder, musicFolder, outroLength, outroReadable, stateFile, locals,
                  handles, history >>
  /\ UNCHANGED peer
  /\ UNCHANGED << propagated, cleanup_error >>
  /\ UNCHANGED mainflow

(***************************************************************************)
(* lines 280-299: the finally block closes the bound clips in order inside *)
(* one try; an exception of a close call ends the block (except: pass).    *)
(* Then the function returns, or the exception of the try block goes on.   *)
(***************************************************************************)
CloseOrder == << "music_clip", "background_clip", "main_background",
                 "outro_clip", "final_video" >>

Bound(name) ==
  CASE name = "music_clip" -> music_clip # NoClip
    [] name = "background_clip" -> background_clip # NoClip
    [] name = "main_background" -> main_background # NoClip
    [] name = "outro_clip" -> outro_clip # NoClip
    [] name = "final_video" -> final_video # NoClip

ToClose == SelectSeq(CloseOrder, Bound)

\* The close calls completed when the raiseAt-th one raises (0: none does).
Closed(raiseAt) ==
  { ToClose[i] : i \in 1..(IF raiseAt = 0 THEN Len(ToClose) ELSE raiseAt - 1) }

\* Variant: the close calls are not guarded, so an exception of a close call
\* leaves the finally block and takes the place of the one in flight.
Cleanup_Unguarded ==
  /\ pc = "finally"
  /\ \E raiseAt \in 0..Len(ToClose) :
       /\ closes' = [o \in Objects |->
                       IF o \in Closed(raiseAt) THEN closes[o] + 1 ELSE closes[o]]
       /\ cleanup_error' = (raiseAt # 0)
       /\ propagated' = IF raiseAt # 0 THEN "close" ELSE exception
       /\ pc' = IF error \/ raiseAt # 0 THEN "raised" ELSE "returned"
  /\ UNCHANGED << disk, locals, opened, rendered, error, history, exception >>
  /\ UNCHANGED peer
  /\ UNCHANGED mainflow

Cleanup ==
  /\ pc = "finally"
  /\ \E raiseAt \in 0..Len(ToClose) :
       /\ closes' = [o \in Objects |->
                       IF o \in Closed(raiseAt) THEN closes[o] + 1 ELSE closes[o]]
       /\ cleanup_error' = (raiseAt # 0)
  /\ propagated' = exception
  /\ pc' = IF error THEN "raised" ELSE "returned"
  /\ UNCHANGED << disk, locals, opened, rendered, error, history, exception >>
  /\ UNCHANGED peer
  /\ UNCHANGED mainflow

Next ==
  \/ Invoke
  \/ EndRun
  \/ RemoveVideo
  \/ GetOutroDuration
  \/ SelectMusic
  \/ ListVideos
  \/ ReadCursor
  \/ WriteCursor
  \/ LoadClips
  \/ CompositeMainVideo
  \/ LoadOutroClip
  \/ Concatenate
  \/ WriteFinalFile
  \/ Cleanup

Spec == Init /\ [][Next]_vars

(***************************************************************************)
(* The rotation followed from an absent state file over a folder that does *)
(* not change.                                                             *)
(***************************************************************************)
InitRotation ==
  /\ \E vids \in SUBSET VideoNames, outro \in SUBSET { OUTRO_FILENAME } :
       bgFolder = OtherFiles \cup vids \cup outro
  /\ \E songs \in SUBSET MusicNames : musicFolder = { "cover.jpg" } \cup songs
  /\ outroLength \in 1..MaxOutroDuration
  /\ outroReadable \in BOOLEAN
  /\ stateFile = NoFile
  /\ fileAtStart = stateFile
  /\ sheet = << >> /\ sheetAtStart = sheet
  /\ InitLocals

InvokeRotation == InvokeUpTo(MaxRotationRuns)

NextRotation ==
  \/ InvokeRotation
  \/ EndRun
  \/ GetOutroDuration
  \/ SelectMusic
  \/ ListVideos
  \/ ReadCursor
  \/ WriteCursor
  \/ LoadClips
  \/ CompositeMainVideo
  \/ LoadOutroClip
  \/ Concatenate
  \/ WriteFinalFile
  \/ Cleanup

SpecRotation == InitRotation /\ [][NextRotation]_vars

(***************************************************************************)
(* Vocabulary of the properties.  The eligible videos and the sorted index *)
(* of a video are stated from the folder, not from available_videos.       *)
(***************************************************************************)
Eligible == bgFolder \cap VideoNames

SortedIndexOf(f) == Cardinality({ g \in Eligible : Rank(g) < Rank(f) })

\* The selection step of this run has completed.
Selected == writes >= 1

\* The selection chose the video at sorted index i and persisted i.
SelectedAndPersisted(i) ==
  /\ next_index = i
  /\ chosen_video_path \in Eligible
  /\ SortedIndexOf(chosen_video_path) = i
  /\ stateFile.exists
  /\ ParseInt(stateFile.text) = [ok |-> TRUE, val |-> i]

\* The state file held the integer c when the run started.
HeldInteger(c) ==
  /\ fileAtStart.exists
  /\ fileAtStart.text # << >>
  /\ ParseInt(fileAtStart.text) = [ok |-> TRUE, val |-> c]

\* The state file was missing, empty or not an integer when the run started.
Unreadable ==
  \/ ~fileAtStart.exists
  \/ fileAtStart.text = << >>
  \/ ~ParseInt(fileAtStart.text).ok

CursorValues == -3..12

(* C1: from an absent state file and over an unchanged folder of K >= 1
   background videos, the n-th selection step (counted from 0) selects the
   video at sorted index n mod K and leaves n mod K in the state file. *)
C1_CyclicRotation ==
  Selected =>
    SelectedAndPersisted((selections - 1) % Cardinality(Eligible))

\* The fourth selection over three videos has wrapped around to index 0.
C1_Witness ==
  /\ Selected /\ selections = 4 /\ Cardinality(Eligible) = 3
  /\ next_index = 0 /\ chosen_video_path = "a.mp4"

(* C2, as claimed: a persisted integer c with c < 0 or c >= count is taken
   for an absent cursor, so the step selects sorted index 0 and persists 0. *)
C2_OutOfRangeIsAbsent ==
  \A c \in CursorValues :
    (Selected /\ HeldInteger(c) /\ (c < 0 \/ c >= Cardinality(Eligible)))
      => SelectedAndPersisted(0)

(* C2, amended: a persisted integer c with c < 0 or c >= count is not reset
   but wrapped: the step selects sorted index (c + 1) mod count (the
   non-negative remainder) and persists it. *)
C2_OutOfRangeWraps ==
  \A c \in CursorValues :
    (Selected /\ HeldInteger(c) /\ (c < 0 \/ c >= Cardinality(Eligible)))
      => SelectedAndPersisted((c + 1) % Cardinality(Eligible))

\* A cursor written by the first run is too large for the folder after a
\* video was removed, and the second run selects index 1, not 0.
C2_Witness ==
  /\ Selected /\ selections = 2 /\ HeldInteger(2)
  /\ Cardinality(Eligible) = 2 /\ next_index = 1

(* C3: a missing, empty or non-integer state file never makes the read of
   the cursor fail (a run only exits before the list of videos is there or
   because that list is empty), and the selection then behaves as for a
   cursor of -1: it selects sorted index 0 and persists 0. *)
C3_StateRecovery ==
  /\ (pc = "exited" /\ Unreadable) => available_videos = << >>
  /\ (Unreadable /\ pc \notin { "idle", "outro", "music", "videos", "read" }
        /\ pc # "exited")
       => last_index = -1
  /\ (Selected /\ Unreadable) => SelectedAndPersisted(0)

\* A selection has completed over a state file that held no integer.
C3_Witness ==
  /\ Selected /\ fileAtStart = FileOf(<< "1", ".", "5" >>)
  /\ next_index = 0 /\ Cardinality(Eligible) = 3

(* C4: after a completed selection step, whatever the state file held and
   for every count >= 1, the persisted cursor c satisfies 0 <= c < count and
   the chosen video is the one at sorted index c. *)
C4_CursorInRange ==
  Selected =>
    /\ stateFile.exists
    /\ ParseInt(stateFile.text).ok
    /\ ParseInt(stateFile.text).val \in 0..(Cardinality(Eligible) - 1)
    /\ SelectedAndPersisted(ParseInt(stateFile.text).val)

\* A selection has completed over a negative cursor below -1.
C4_Witness ==
  /\ Selected /\ HeldInteger(-3) /\ Cardinality(Eligible) = 2
  /\ next_index = 0

\* The cursor the recovery rule of the read gives for the file at the start.
CursorAtStart ==
  IF Unreadable THEN -1 ELSE ParseInt(fileAtStart.text).val

\* The render has been attempted in this run.
RenderAttempted == rendered # "no"

(* C5: the new cursor is in the state file before write_videofile is
   attempted, the state file is written at most once in a run and exactly
   once in a run that gets to the render, and a run that ends with the
   exception of the composition or of the render leaves the advanced cursor
   in the file, which is where the next run starts from. *)
C5_AdvanceThenRender ==
  /\ writes <= 1
  /\ (pc = "render" \/ RenderAttempted)
       => (writes = 1 /\ SelectedAndPersisted(next_index))
  /\ pc \in { "finally", "raised", "returned" }
       => /\ writes = 1
          /\ SelectedAndPersisted((CursorAtStart + 1) % Cardinality(Eligible))
  /\ pc = "idle" => fileAtStart = stateFile

\* A run whose render failed has ended with the cursor advanced from 0 to 1.
C5_Witness ==
  /\ pc = "raised" /\ rendered = "failed" /\ HeldInteger(0)
  /\ next_index = 1 /\ stateFile = FileOf(<< "1" >>)

\* No usable outro file, no background video, or no .mp3 file.
ConfigurationFatal ==
  \/ OUTRO_FILENAME \notin bgFolder
  \/ ~outroReadable
  \/ Eligible = {}
  \/ musicFolder \cap MusicNames = {}

(* C6: with the outro file missing or unreadable, or no eligible background
   video, or no .mp3 file, the run ends in sys.exit before the cursor is read:
   no render is attempted, no output file exists and the state file is as it
   was; and every run that ends in sys.exit has changed nothing. *)
C6_ConfigurationFatal ==
  /\ ConfigurationFatal
       => /\ pc \in { "idle", "outro", "music", "videos", "exited" }
          /\ stateFile = fileAtStart /\ writes = 0
          /\ output = "none" /\ ~RenderAttempted
  /\ pc = "exited"
       => /\ ConfigurationFatal
          /\ stateFile = fileAtStart /\ writes = 0
          /\ output = "none" /\ ~RenderAttempted

\* After a first run the only background video is removed; the second run
\* exits and the cursor of the first run is still in the file.
C6_Witness ==
  /\ pc = "exited" /\ selections = 1 /\ Eligible = {}
  /\ OUTRO_FILENAME \in bgFolder /\ outroReadable
  /\ stateFile = FileOf(<< "0" >>)

(* C7, as claimed: when the call returns or raises, every media handle
   opened in the run has been closed exactly once. *)
C7_EveryHandleClosedOnce ==
  pc \in { "raised", "returned" } => \A h \in opened : closes[h] = 1

(* C8, as claimed: after a failed render the output path holds no file, or
   a file marked as failed. *)
C8_NoPartialOutput ==
  (pc = "raised" /\ rendered = "failed")
    => output \in { "none", "marked_failed" }

(* C9, as claimed: the prepared track lasts TOTAL_DURATION and plays the
   source again from its start when the source is shorter, and the first
   TOTAL_DURATION units of it otherwise. *)
C9_LoopedOrTrimmed ==
  music_clip # NoClip =>
    /\ music_clip.duration = TOTAL_DURATION
    /\ \A t \in 0..(TOTAL_DURATION - 1) :
         AudioAt(music_clip, t) =
           IF music_clip.src < TOTAL_DURATION THEN t % music_clip.src ELSE t

(* C10: the video handed to write_videofile lasts MAIN_VIDEO_DURATION plus
   the duration of the outro file, and so does its audio track. *)
C10_TotalDuration ==
  (pc = "render" \/ RenderAttempted) =>
    /\ final_video.duration = MAIN_VIDEO_DURATION + outroLength
    /\ final_video.audio # NoClip
    /\ final_video.audio.duration = final_video.duration

\* A render has completed for an outro of 2 and a music file of 11.
C10_Witness ==
  /\ rendered = "ok" /\ outroLength = 2 /\ final_video.duration = 14
  /\ final_video.audio.src = 11

(***************************************************************************)
(* Two invocations of the script at once over the same folder.  The first  *)
(* is the run modelled above.  Of the second only the steps up to the      *)
(* write of the cursor are followed: what it does afterwards touches       *)
(* neither the state file nor the first invocation.  The state file is     *)
(* opened with no lock, so the steps of the two interleave freely.         *)
(***************************************************************************)
\* Where the first invocation stands with respect to the cursor.
FirstPhase ==
  IF writes >= 1 THEN "after" ELSE IF pc = "write" THEN "mid" ELSE "before"

\* lines 176-197 in the second invocation: outro, music and video checks.
PeerStart ==
  /\ peer.pc = "idle"
  /\ LET videos == AvailableVideos(ListBackgroundFolder)
         usable == /\ OUTRO_FILENAME \in bgFolder /\ outroReadable
                   /\ AvailableMusic(musicFolder) # {}
                   /\ videos # << >>
     IN  peer' = [peer EXCEPT !.pc = IF usable THEN "read" ELSE "exited",
                              !.available_videos = IF usable THEN videos ELSE @]
  /\ UNCHANGED << disk, pc, locals, handles, rendered, error, history >>
  /\ UNCHANGED surfaced
  /\ UNCHANGED mainflow

\* lines 200-207 in the second invocation
PeerReadCursor ==
  /\ peer.pc = "read"
  /\ peer' = [peer EXCEPT !.pc = "write",
                          !.last_index = ReadCursorValue(stateFile),
                          !.readAt = FirstPhase]
  /\ UNCHANGED << disk, pc, locals, handles, rendered, error, history >>
  /\ UNCHANGED surfaced
  /\ UNCHANGED mainflow

\* lines 209-213 in the second invocation
PeerWriteCursor ==
  /\ peer.pc = "write"
  /\ LET next == NextIndex(peer.last_index, Len(peer.available_videos))
     IN  /\ peer' = [peer EXCEPT
                       !.pc = "selected",
                       !.next_index = next,
                       !.chosen_video_path = ListItem(peer.available_videos, next),
                       !.writeAt = FirstPhase]
         /\ stateFile' = FileOf(Str(next))
  /\ UNCHANGED << bgFolder, musicFolder, outroLength, outroReadable, output,
                  pc, locals, handles, rendered, error, history >>
  /\ UNCHANGED surfaced
  /\ UNCHANGED mainflow

InitRace ==
  /\ \E vids \in SUBSET VideoNames, outro \in SUBSET { OUTRO_FILENAME } :
       bgFolder = OtherFiles \cup vids \cup outro
  /\ \E songs \in SUBSET MusicNames : musicFolder = { "cover.jpg" } \cup songs
  /\ outroLength = 1
  /\ outroReadable = TRUE
  /\ stateFile \in { NoFile } \cup { FileOf(Str(i)) : i \in 0..(MaxVideos - 1) }
  /\ fileAtStart = stateFile
  /\ sheet = << >> /\ sheetAtStart = sheet
  /\ InitLocals

NextRace ==
  \/ Invoke
  \/ GetOutroDuration
  \/ SelectMusic
  \/ ListVideos
  \/ ReadCursor
  \/ WriteCursor
  \/ LoadClips
  \/ CompositeMainVideo
  \/ LoadOutroClip
  \/ Concatenate
  \/ WriteFinalFile
  \/ Cleanup
  \/ PeerStart
  \/ PeerReadCursor
  \/ PeerWriteCursor

SpecRace == InitRace /\ [][NextRace]_vars

\* Both invocations have completed their selection step.
BothSelected == Selected /\ peer.pc = "selected"

\* The integer the state file holds now.
PersistedCursor == ParseInt(stateFile.text).val

\* One invocation wrote the cursor before the other read it.
FirstThenPeer == peer.readAt = "after"

PeerThenFirst == peer.writeAt = "before"

(* C11: when the selection steps of two invocations do not interleave, the
   later one reads what the earlier one wrote: the two select consecutive
   indices and the cursor ends two steps on.  When they interleave (both
   read before either writes), both read the same cursor, both select the
   same index and the cursor ends one step on: a duplicate selection and a
   lost update. *)
C11_RaceOnlyWhenInterleaved ==
  BothSelected =>
    LET K == Cardinality(Eligible)
    IN  /\ FirstThenPeer =>
             /\ peer.last_index = next_index
             /\ peer.next_index = (next_index + 1) % K
             /\ PersistedCursor = (last_index + 2) % K
        /\ PeerThenFirst =>
             /\ last_index = peer.next_index
             /\ next_index = (peer.next_index + 1) % K
             /\ PersistedCursor = (peer.last_index + 2) % K
        /\ (~FirstThenPeer /\ ~PeerThenFirst) =>
             /\ peer.last_index = last_index
             /\ peer.next_index = next_index
             /\ peer.chosen_video_path = chosen_video_path
             /\ PersistedCursor = (last_index + 1) % K

\* Both invocations read cursor 0 over three videos, both chose the video at
\* index 1, and the cursor ended at 1 instead of 2.
C11_Witness ==
  /\ BothSelected /\ Cardinality(Eligible) = 3
  /\ fileAtStart = FileOf(<< "0" >>)
  /\ last_index = 0 /\ peer.last_index = 0
  /\ next_index = 1 /\ peer.next_index = 1
  /\ chosen_video_path = "m.mp4" /\ peer.chosen_video_path = "m.mp4"
  /\ PersistedCursor = 1

(* C13: an exception of the composition or of the render is not swallowed:
   the call never returns normally after it, the finally block runs before
   the caller receives anything, the caller receives that same exception,
   and an exception of a close call in the finally block does not take its
   place. *)
C13_ErrorSurfacesAfterCleanup ==
  /\ error => (pc \in { "finally", "raised" } /\ exception # "none")
  /\ pc = "finally" => propagated = "none"
  /\ pc = "raised" => (error /\ propagated = exception)
  /\ pc = "returned" => (propagated = "none" /\ rendered = "ok")
  /\ (rendered = "failed" /\ pc \in Finished)
       => (pc = "raised" /\ propagated = "render")

\* The render failed, a close call raised in the finally block, and the
\* caller received the exception of the render.
C13_Witness ==
  /\ pc = "raised" /\ rendered = "failed" /\ cleanup_error
  /\ propagated = "render"

(***************************************************************************)
(* The main block of the script (lines 312-386): content generation, the   *)
(* call of generate_video_with_music modelled above, the upload and the    *)
(* row logged to the sheet.  An uncaught exception or sys.exit ends the    *)
(* script where it happens.                                                *)
(***************************************************************************)
MAX_ATTEMPTS == 5

\* First parts the text generation may produce; "Error" is also the value
\* create_quote_content returns as its failure signal.
Captions == { "fact A", "fact B", "Error" }

\* What one call of gemini_model.generate_content may bring.
Responses ==
  { [kind |-> "api_error", part1 |-> "", wellformed |-> FALSE],
    [kind |-> "no_text", part1 |-> "", wellformed |-> FALSE] }
  \cup { [kind |-> "text", part1 |-> c, wellformed |-> w] :
           c \in Captions, w \in BOOLEAN }

Row(part1, status) == [part1 |-> part1, status |-> status]

\* sheet.col_values(1)[1:]
FirstColumn(rows) == { rows[i].part1 : i \in 1..Len(rows) }

ScriptEnded == { "invalid", "crashed", "content_failed", "exited", "raised",
                 "completed" }

\* lines 313-318: the choice is read; anything but 1 or 2 ends the script.
StartScript ==
  /\ pc = "idle"
  /\ selections < MaxRuns
  /\ choice' \in { "1", "2", "3" }
  /\ pc' = IF choice' \in { "1", "2" } THEN "content" ELSE "invalid"
  /\ UNCHANGED << disk, locals, handles, rendered, error, history, surfaced,
                  sheet, used_facts, attempt, content, video_id,
                  upload_status, logged, sheetAtStart, peer >>

\* lines 69-77: the used facts are read from the sheet; a failed read is
\* reported and the history is taken to be empty.
ReadHistory ==
  /\ pc = "content"
  /\ \E readable \in BOOLEAN :
       used_facts' = IF readable THEN FirstColumn(sheet) ELSE {}
  /\ pc' = "attempt"
  /\ UNCHANGED << disk, locals, handles, rendered, error, history, surfaced,
                  choice, sheet, attempt, content, video_id, upload_status,
                  logged, sheetAtStart, peer >>

\* Variant: the duplicate test is left out of the loop.
AttemptOutcome_NoDuplicateTest(r, used) ==
  CASE r.kind = "api_error" -> "raise"
    [] r.kind = "no_text" -> "retry"
    [] ~r.wellformed -> "retry"
    [] OTHER -> "return"

\* lines 123-135: one pass of the loop.  generate_content is called outside
\* the try; a response without text, a first part already used, or a
\* response without PART_2 or TITLE leads to the next pass.
AttemptOutcome(r, used) ==
  CASE r.kind = "api_error" -> "raise"
    [] r.kind = "no_text" -> "retry"
    [] r.part1 \in used -> "retry"
    [] ~r.wellformed -> "retry"
    [] OTHER -> "return"

\* lines 80-138: one pass of the loop, and the return after the last pass.
GenerateAttempt ==
  /\ pc = "attempt"
  /\ attempt < MAX_ATTEMPTS
  /\ attempt' = attempt + 1
  /\ \E r \in Responses :
       LET outcome == AttemptOutcome(r, used_facts)
       IN  CASE outcome = "raise" -> pc' = "crashed" /\ UNCHANGED content
             [] outcome = "return" -> pc' = "content_done" /\ content' = r.part1
             [] OTHER ->
                  IF attempt' = MAX_ATTEMPTS
                  THEN pc' = "content_done" /\ content' = "Error"
                  ELSE pc' = "attempt" /\ UNCHANGED content
  /\ UNCHANGED << disk, locals, handles, rendered, error, history, surfaced,
                  choice, sheet, used_facts, video_id, upload_status, logged,
                  sheetAtStart, peer >>

\* lines 320-332: the error signal ends the script; otherwise
\* generate_video_with_music is called.
CheckContent ==
  /\ pc = "content_done"
  /\ IF content = "Error"
     THEN pc' = "content_failed" /\ UNCHANGED << used_facts, attempt >>
     ELSE pc' = "outro" /\ used_facts' = {} /\ attempt' = 0
  /\ fileAtStart' = stateFile
  /\ UNCHANGED << disk, locals, handles, rendered, error, selections, writes,
                  surfaced, choice, sheet, content, video_id, upload_status,
                  logged, sheetAtStart, peer >>

\* upload_video (src/upload_video.py): the id of the uploaded video, or
\* nothing when the file is missing or the upload raised.
UploadVideo(file_exists, api_ok) ==
  IF ~file_exists THEN "" ELSE IF api_ok THEN "vid" ELSE ""

\* Variant: the status is set before the id is tested.
UploadStatus_Untested(id) == "UPLOADED_PUBLIC_ID"

\* lines 369-379
UploadStatus(id) == IF id # "" THEN "UPLOADED_PUBLIC_ID" ELSE "UPLOAD_FAILED"

\* lines 335-379: the upload phase after the video was generated.
Upload ==
  /\ pc = "returned"
  /\ IF choice = "2"
     THEN \E auth_ok \in BOOLEAN, api_ok \in BOOLEAN :
            IF auth_ok
            THEN /\ video_id' = UploadVideo(output = "complete", api_ok)
                 /\ upload_status' = UploadStatus(video_id')
            ELSE /\ upload_status' = "UPLOAD_FAILED"
                 /\ UNCHANGED video_id
     ELSE upload_status' = "Generated Locally" /\ UNCHANGED video_id
  /\ pc' = "log"
  /\ UNCHANGED << disk, locals, handles, rendered, error, history, surfaced,
                  choice, sheet, used_facts, attempt, content, logged,
                  sheetAtStart, peer >>

\* line 382 and lines 301-309: the row is appended; a failed append is
\* reported and the script goes on.
LogToSheet ==
  /\ pc = "log"
  /\ \E appended \in BOOLEAN :
       IF appended
       THEN /\ sheet' = Append(sheet, Row(content, upload_status))
            /\ logged' = "appended"
       ELSE /\ logged' = "failed"
            /\ UNCHANGED sheet
  /\ pc' = "completed"
  /\ UNCHANGED << disk, locals, handles, rendered, error, history, surfaced,
                  choice, used_facts, attempt, content, video_id,
                  upload_status, sheetAtStart, peer >>

\* The process of the script ends; the folders, the state file and the
\* sheet stay.
EndScript ==
  /\ pc \in ScriptEnded
  /\ pc' = "idle"
  /\ OUTRO_DURATION' = 0 /\ TOTAL_DURATION' = 0
  /\ chosen_music_path' = "" /\ available_videos' = << >>
  /\ last_index' = -1 /\ next_index' = -1 /\ chosen_video_path' = ""
  /\ music_clip' = NoClip /\ background_clip' = NoClip
  /\ main_background' = NoClip /\ main_video' = NoClip
  /\ outro_clip' = NoClip /\ final_video' = NoClip
  /\ opened' = {} /\ closes' = [o \in Objects |-> 0]
  /\ rendered' = "no" /\ error' = FALSE
  /\ exception' = "none" /\ propagated' = "none" /\ cleanup_error' = FALSE
  /\ output' = "none"
  /\ writes' = 0 /\ fileAtStart' = stateFile
  /\ choice' = "" /\ used_facts' = {} /\ attempt' = 0 /\ content' = ""
  /\ video_id' = "" /\ upload_status' = "" /\ logged' = "no"
  /\ sheetAtStart' = sheet
  /\ UNCHANGED << bgFolder, musicFolder, outroLength, outroReadable,
                  stateFile, selections, sheet, peer >>

InitMain ==
  /\ \E vids \in { {}, VideoNames }, outro \in SUBSET { OUTRO_FILENAME } :
       bgFolder = OtherFiles \cup vids \cup outro
  /\ \E songs \in SUBSET MusicNames : musicFolder = { "cover.jpg" } \cup songs
  /\ outroLength = 1
  /\ outroReadable = TRUE
  /\ stateFile = NoFile
  /\ fileAtStart = stateFile
  /\ sheet \in { << >>, << Row("fact A", "Generated Locally") >> }
  /\ sheetAtStart = sheet
  /\ InitLocals

NextMain ==
  \/ StartScript
  \/ ReadHistory
  \/ GenerateAttempt
  \/ CheckContent
  \/ GetOutroDuration
  \/ SelectMusic
  \/ ListVideos
  \/ ReadCursor
  \/ WriteCursor
  \/ LoadClips
  \/ CompositeMainVideo
  \/ LoadOutroClip
  \/ Concatenate
  \/ WriteFinalFile
  \/ Cleanup
  \/ Upload
  \/ LogToSheet
  \/ EndScript

SpecMain == InitMain /\ [][NextMain]_vars

(***************************************************************************)
(* Vocabulary of the claims about the main block.                          *)
(***************************************************************************)
\* The steps before generate_video_with_music is called.
BeforePipeline == { "idle", "invalid", "content", "attempt", "content_done",
                    "content_failed", "crashed" }

\* Nothing of generate_video_with_music has happened in this run.
PipelineUntouched ==
  /\ OUTRO_DURATION = 0 /\ TOTAL_DURATION = 0
  /\ chosen_music_path = "" /\ available_videos = << >>
  /\ last_index = -1 /\ next_index = -1 /\ chosen_video_path = ""
  /\ writes = 0 /\ stateFile = fileAtStart
  /\ final_video = NoClip /\ opened = {}
  /\ rendered = "no" /\ output = "none"

\* The sheet is the sheet of the start of the run with one more row.
RowAppended == sheet = Append(sheetAtStart, Row(content, upload_status))

\* C12: create_quote_content makes at most MAX_ATTEMPTS generation attempts;
\* what it returns is the error signal or a first part that is not in the
\* history it read; on the error signal the script ends at once: nothing is
\* selected, the cursor is not advanced, nothing is composed or rendered,
\* and generate_video_with_music only ever runs with a caption.
C12_BoundedAttemptsFailClosed ==
  /\ attempt <= MAX_ATTEMPTS
  /\ pc = "attempt" => attempt < MAX_ATTEMPTS
  /\ pc = "content_done" =>
       /\ attempt >= 1
       /\ content = "Error" \/ (content \in Captions /\ content \notin used_facts)
  /\ pc = "content_failed" => content = "Error"
  /\ pc \in BeforePipeline => PipelineUntouched
  /\ pc \notin BeforePipeline => content \in Captions \ { "Error" }

\* C12 witness: a second run used up its five attempts against a non-empty
\* history and ended on the error signal, the cursor written by the first
\* run still in the state file.
C12_Witness ==
  /\ pc = "content_failed"
  /\ attempt = MAX_ATTEMPTS
  /\ used_facts # {}
  /\ stateFile # NoFile
  /\ selections = 1

\* C14 as stated: when the script has ended, one row was appended if and
\* only if the render completed.
C14_RowIffRenderCompleted ==
  pc \in ScriptEnded => (RowAppended <=> rendered = "ok")

\* C14 amended: log_to_sheet is called exactly once in a run if and only if
\* the render completed, whatever the upload outcome, and it appends one row
\* unless append_row raises, which it reports and swallows; the recorded
\* status is UPLOADED_PUBLIC_ID only when upload_video returned an id; a run
\* that ends before or in generate_video_with_music appends nothing.
C14_LoggedOnceIffRenderCompleted ==
  /\ logged # "no" <=> pc = "completed"
  /\ (pc \in ScriptEnded /\ rendered = "ok") <=> pc = "completed"
  /\ logged = "appended" => RowAppended
  /\ logged # "appended" => sheet = sheetAtStart
  /\ pc = "completed" =>
       /\ choice = "1" <=> upload_status = "Generated Locally"
       /\ choice = "2" <=> upload_status \in { "UPLOADED_PUBLIC_ID", "UPLOAD_FAILED" }
  /\ upload_status = "UPLOADED_PUBLIC_ID" <=> video_id # ""
  /\ video_id # "" => (choice = "2" /\ output = "complete")

\* C14 witness: the upload brought no id and the row was appended with the
\* failure status to a sheet that already had a row.
C14_Witness ==
  /\ pc = "completed"
  /\ choice = "2"
  /\ video_id = ""
  /\ upload_status = "UPLOAD_FAILED"
  /\ logged = "appended"
  /\ Len(sheet) = Len(sheetAtStart) + 1
  /\ Len(sheetAtStart) >= 1

=============================================================================
